---- MODULE Spec2Model ----
(***************************************************************************)
(* The API adapters of the media-db plugin (RawgAPI, GoogleBooksAPI,       *)
(* TMDBAPI, BoardGameGeekAPI) as a state machine.  One adapter instance    *)
(* is under test; any number of invocations of searchByTitle / getById     *)
(* run on it, up to MaxCalls of them at once.  An async method is cut at   *)
(* its awaits: the code between two awaits is one atomic action            *)
(* (JavaScript runs it to completion), and the answer of requestUrl is     *)
(* chosen by the environment when the await resumes.                       *)
(***************************************************************************)
EXTENDS Integers, Sequences, FiniteSets

(* ------------------------------ bounds -------------------------------- *)

\* number of invocations that can be in flight at once on the adapter
MaxCalls == 2

\* longest ordinary item list in a response body
MaxItems == 2

\* how far a TMDB result list may exceed the slice limit
MaxOver == 1

\* most elements a search-result modal is opened with
MaxElements == 3

\* most calls of submit(), of skip() and of onClose() on one modal
MaxModalCalls == 2

\* most pieces a description text is put together from
MaxPieces == 3

(* ------------------------- program constants -------------------------- *)

\* movieData.results.slice(0, 10) / tvData.results.slice(0, 10)
TMDBSliceLimit == 10

(* ------------------------------ strings ------------------------------- *)
\* Strings that the code takes apart (ids, titles) are sequences of
\* one-character strings; strings it only copies are TLA+ strings.

Digits == <<"0", "1", "2", "3", "4", "5", "6", "7", "8", "9">>

RECURSIVE toString(_)
\* Number.prototype.toString() of a non-negative integer
toString(n) ==
    IF n < 10 THEN <<Digits[n + 1]>>
    ELSE toString(n \div 10) \o <<Digits[(n % 10) + 1]>>

\* String.prototype.startsWith
StartsWith(s, p) ==
    /\ Len(s) >= Len(p)
    /\ SubSeq(s, 1, Len(p)) = p

\* positions at which pat occurs in s
Occurrences(s, pat) ==
    {i \in 1..(Len(s) - Len(pat) + 1) : SubSeq(s, i, i + Len(pat) - 1) = pat}

\* String.prototype.replace with a string pattern: the first occurrence only
ReplaceFirst(s, pat, rep) ==
    IF Occurrences(s, pat) = {} THEN s
    ELSE LET i == CHOOSE k \in Occurrences(s, pat) :
                      \A j \in Occurrences(s, pat) : k <= j
         IN  SubSeq(s, 1, i - 1) \o rep \o SubSeq(s, i + Len(pat), Len(s))

\* characters encodeURIComponent leaves alone (those the model's inputs use)
Unreserved == {"a", "b", "t", "v", "-"} \cup {Digits[i] : i \in 1..10}

EncodeChar(ch) ==
    IF ch \in Unreserved THEN <<ch>>
    ELSE IF ch = " " THEN <<"%", "2", "0">>
    ELSE IF ch = "," THEN <<"%", "2", "C">>
    ELSE <<"%", "?", "?">>

RECURSIVE EncodeURIComponent(_)
EncodeURIComponent(s) ==
    IF s = <<>> THEN <<>>
    ELSE EncodeChar(Head(s)) \o EncodeURIComponent(Tail(s))

RECURSIVE Join(_, _)
\* Array.prototype.join of a list of strings
Join(list, sep) ==
    IF list = <<>> THEN <<>>
    ELSE IF Len(list) = 1 THEN list[1]
    ELSE list[1] \o sep \o Join(Tail(list), sep)

\* Array.prototype.slice(0, n)
Slice(list, n) == SubSeq(list, 1, IF Len(list) < n THEN Len(list) ELSE n)

(* ------------------------ field normalisation ------------------------- *)
\* Texts are sequences of one-character strings.  The characters outside
\* ASCII are written by their code points: "U+2014" is the em dash and
\* "U+2013" the en dash.

RECURSIVE ReplaceAll(_, _, _)
\* String.prototype.replace(/pat/g, rep) for a literal pattern: the matches
\* are taken from left to right, and what replaces a match is not searched
ReplaceAll(s, pat, rep) ==
    IF Len(s) < Len(pat) THEN s
    ELSE IF SubSeq(s, 1, Len(pat)) = pat
    THEN rep \o ReplaceAll(SubSeq(s, Len(pat) + 1, Len(s)), pat, rep)
    ELSE <<Head(s)>> \o ReplaceAll(Tail(s), pat, rep)

RECURSIVE StripTags(_)
\* .replace(/<[^>]*>/g, ''): from a '<' up to the next '>'; a '<' with no
\* '>' after it stays
StripTags(s) ==
    IF s = <<>> THEN <<>>
    ELSE IF Head(s) = "<" /\ \E j \in 2..Len(s) : s[j] = ">"
    THEN LET j == CHOOSE k \in 2..Len(s) :
                      /\ s[k] = ">"
                      /\ \A i \in 2..(k - 1) : s[i] # ">"
         IN  StripTags(SubSeq(s, j + 1, Len(s)))
    ELSE <<Head(s)>> \o StripTags(Tail(s))

\* the white space String.prototype.trim removes (of the model's characters)
WhiteSpace == {" ", "\n", "\r"}

RECURSIVE TrimStart(_)
TrimStart(s) ==
    IF s # <<>> /\ Head(s) \in WhiteSpace THEN TrimStart(Tail(s)) ELSE s

RECURSIVE TrimEnd(_)
TrimEnd(s) ==
    IF s # <<>> /\ s[Len(s)] \in WhiteSpace
    THEN TrimEnd(SubSeq(s, 1, Len(s) - 1))
    ELSE s

\* String.prototype.trim
Trim(s) == TrimEnd(TrimStart(s))

RECURSIVE ReplaceEach(_, _)
\* a chain of .replace(/pat/g, rep) calls, one per entry of steps, in order
ReplaceEach(s, steps) ==
    IF steps = <<>> THEN s
    ELSE ReplaceEach(ReplaceAll(s, Head(steps).pat, Head(steps).rep),
                     Tail(steps))

\* the entity replacements of cleanHtml, in the order of the code
CleanHtmlEntities ==
    << [pat |-> <<"&", "n", "b", "s", "p", ";">>, rep |-> <<" ">>],
       [pat |-> <<"&", "a", "m", "p", ";">>,      rep |-> <<"&">>],
       [pat |-> <<"&", "l", "t", ";">>,           rep |-> <<"<">>],
       [pat |-> <<"&", "g", "t", ";">>,           rep |-> <<">">>],
       [pat |-> <<"&", "q", "u", "o", "t", ";">>, rep |-> <<"\"">>],
       [pat |-> <<"&", "#", "3", "9", ";">>,      rep |-> <<"'">>] >>

\* the replacement of Windows line ends that closes the chain of cleanHtml
CleanHtmlLineEnds == << [pat |-> <<"\r", "\n">>, rep |-> <<"\n">>] >>

\* GoogleBooksAPI.cleanHtml(html)
cleanHtml(html) ==
    IF html = <<>> THEN <<>>
    ELSE Trim(ReplaceEach(StripTags(html),
                          CleanHtmlEntities \o CleanHtmlLineEnds))

\* the entity replacements of the description in BoardGameGeekAPI.getById,
\* in the order of the code
DescriptionEntities ==
    << [pat |-> <<"&", "#", "1", "0", ";">>,           rep |-> <<"\n">>],
       [pat |-> <<"&", "a", "m", "p", ";">>,           rep |-> <<"&">>],
       [pat |-> <<"&", "l", "t", ";">>,                rep |-> <<"<">>],
       [pat |-> <<"&", "g", "t", ";">>,                rep |-> <<">">>],
       [pat |-> <<"&", "q", "u", "o", "t", ";">>,      rep |-> <<"\"">>],
       [pat |-> <<"&", "r", "s", "q", "u", "o", ";">>, rep |-> <<"'">>],
       [pat |-> <<"&", "l", "s", "q", "u", "o", ";">>, rep |-> <<"'">>],
       [pat |-> <<"&", "r", "d", "q", "u", "o", ";">>, rep |-> <<"\"">>],
       [pat |-> <<"&", "l", "d", "q", "u", "o", ";">>, rep |-> <<"\"">>],
       [pat |-> <<"&", "m", "d", "a", "s", "h", ";">>, rep |-> <<"U+2014">>],
       [pat |-> <<"&", "n", "d", "a", "s", "h", ";">>, rep |-> <<"U+2013">>],
       [pat |-> <<"&", "h", "e", "l", "l", "i", "p", ";">>,
        rep |-> <<".", ".", ".">>] >>

\* the description of BoardGameGeekAPI.getById, from the text of the
\* <description> element
BGG_description(description) == Trim(ReplaceEach(description, DescriptionEntities))

\* pieces the description texts of the model are put together from:
\* entities, ends of entities, a tag, single characters, a line end
Pieces ==
    { <<"&", "a", "m", "p", ";">>, <<"&", "l", "t", ";">>,
      <<"&", "g", "t", ";">>, <<"&", "n", "b", "s", "p", ";">>,
      <<"&", "#", "1", "0", ";">>, <<"&", "h", "e", "l", "l", "i", "p", ";">>,
      <<"l", "t", ";">>, <<"g", "t", ";">>, <<"a", "m", "p", ";">>,
      <<"<", "b", ">">>, <<"<">>, <<">">>, <<"b">>, <<" ">>,
      <<"\r", "\n">> }

RECURSIVE Texts(_)
\* the texts of at most n pieces
Texts(n) ==
    IF n = 0 THEN {<<>>}
    ELSE Texts(n - 1) \cup {t \o p : t \in Texts(n - 1), p \in Pieces}

\* the text input, not normalised by any function yet
NoText(input) == [fn |-> "none", input |-> input, output |-> <<>>]

(* ------------------------------ adapters ------------------------------ *)

APIs == {"RawgAPI", "GoogleBooksAPI", "TMDBAPI", "BoardGameGeekAPI"}

Ops == {"searchByTitle", "getById"}

\* this.types, set by each constructor
types(a) ==
    CASE a = "RawgAPI"          -> {"game"}
      [] a = "GoogleBooksAPI"   -> {"book"}
      [] a = "TMDBAPI"          -> {"movie", "series"}
      [] a = "BoardGameGeekAPI" -> {"boardgame"}

\* this.apiUrl / BASE_URL: the prefix of the adapter's request URLs
apiUrl(a) ==
    CASE a = "RawgAPI"          -> "https://api.rawg.io/api"
      [] a = "GoogleBooksAPI"   -> "https://www.googleapis.com/books/v1"
      [] a = "TMDBAPI"          -> "https://api.themoviedb.org/3"
      [] a = "BoardGameGeekAPI" -> "https://boardgamegeek.com/xmlapi2"

\* values of an API key setting: unset, or some key
Keys == {"", "k"}

\* settings the adapter reads
SettingsOf(a) ==
    [ RawgKey : IF a = "RawgAPI" THEN Keys ELSE {""},
      GoogleBooksKey : IF a = "GoogleBooksAPI" THEN Keys ELSE {""},
      TMDBKey : IF a = "TMDBAPI" THEN Keys ELSE {""},
      BoardgameGeekKey : IF a = "BoardGameGeekAPI" THEN Keys ELSE {""},
      TMDBAPI_disabledMediaTypes :
          IF a = "TMDBAPI" THEN SUBSET {"movie", "series"} ELSE {{}} ]

(* --------------------------- response bodies -------------------------- *)

\* a JSON result (RawgSearchResult, RawgGameDetails, TMDBSearchMovieResult,
\* TMDBSearchTVResult, TMDBMovieDetails, TMDBTVDetails): the numeric id and
\* the name / title, the fields the model tracks
Item(n) == [id |-> n, name |-> <<"a">> \o toString(n)]

\* GoogleBooksVolume: a string id and volumeInfo.title
Volume(n) == [id |-> <<"v">> \o toString(n),
              volumeInfo |-> [title |-> <<"a">> \o toString(n)]]

\* an <item> of a BGG answer: the id attribute, the value of <name> and the
\* values of its <yearpublished> elements (the first item has one, the
\* others none)
XmlItem(n) ==
    [id |-> toString(n), name |-> <<"a">> \o toString(n),
     yearpublished |-> IF n = 1 THEN <<"1995">> ELSE <<>>]

\* lengths of the result lists the environment answers with
ListLens == 0..MaxItems

\* TMDB result lists also come at and above the slice limit
TMDBListLens == ListLens \cup {TMDBSliceLimit + k : k \in 0..MaxOver}

\* result lists: every length with all ids different, and the longest
\* also with one id repeated
Shapes(n) ==
    {[i \in 1..k |-> i] : k \in ListLens} \cup {[i \in 1..n |-> 1]}

ItemLists == {[i \in DOMAIN sh |-> Item(sh[i])] : sh \in Shapes(MaxItems)}

VolumeLists == {[i \in DOMAIN sh |-> Volume(sh[i])] : sh \in Shapes(MaxItems)}

XmlItemLists == {[i \in DOMAIN sh |-> XmlItem(sh[i])] : sh \in Shapes(MaxItems)}

TMDBItemLists ==
    ItemLists \cup {[i \in 1..n |-> Item(i)] : n \in TMDBListLens}

\* GoogleBooksSearchResponse: the parsed JSON may be null; items is optional
GoogleBooksSearchBodies ==
    [isNull : {TRUE}, totalItems : {0}, hasItems : {FALSE}, items : {<<>>}]
    \cup [isNull : {FALSE}, totalItems : {0, MaxItems}, hasItems : {FALSE},
          items : {<<>>}]
    \cup [isNull : {FALSE}, totalItems : {0, MaxItems}, hasItems : {TRUE},
          items : VolumeLists]

\* GoogleBooksVolume of a detail answer: null, without volumeInfo, or whole
GoogleBooksVolumeBodies ==
    [isNull : {TRUE}, hasVolumeInfo : {FALSE}, volume : {Volume(1)}]
    \cup [isNull : {FALSE}, hasVolumeInfo : BOOLEAN,
          volume : {Volume(n) : n \in 1..MaxItems}]

\* an <item> of a BGG /thing answer as the thumbnail pass reads it: the id
\* attribute and the text of <thumbnail>
ThingItems == [id : {toString(n) : n \in 1..MaxItems},
               thumbnail : {"", "https://img"}]

\* /thing answers: no item, one item, or one item per id in order
ThingLists ==
    {<<>>} \cup {<<t>> : t \in ThingItems}
    \cup {[i \in 1..MaxItems |->
              [id |-> toString(i), thumbnail |-> "https://img"]]}

\* the body of a response, by the endpoint that was asked
Bodies(endpoint) ==
    CASE endpoint = "rawg/games"        -> [results : ItemLists]
      [] endpoint = "rawg/games/id"     -> {Item(n) : n \in 1..MaxItems}
      [] endpoint = "books/volumes"     -> GoogleBooksSearchBodies
      [] endpoint = "books/volumes/id"  -> GoogleBooksVolumeBodies
      [] endpoint = "tmdb/search/movie" -> [results : TMDBItemLists]
      [] endpoint = "tmdb/search/tv"    -> [results : TMDBItemLists]
      [] endpoint = "tmdb/movie/id"     -> {Item(n) : n \in 1..MaxItems}
      [] endpoint = "tmdb/tv/id"        -> {Item(n) : n \in 1..MaxItems}
      [] endpoint = "bgg/search"        -> [items : XmlItemLists]
      [] endpoint = "bgg/thing"         -> [items : ThingLists]
      [] endpoint = "bgg/thing/stats"   ->
            [items : {<<>>} \cup {<<XmlItem(n)>> : n \in 1..MaxItems}]

\* the body an error answer carries: a one-result body of the endpoint
ErrorBody(endpoint) ==
    CASE endpoint = "rawg/games"        -> [results |-> <<Item(1)>>]
      [] endpoint = "rawg/games/id"     -> Item(1)
      [] endpoint = "books/volumes"     ->
            [isNull |-> FALSE, totalItems |-> MaxItems, hasItems |-> TRUE,
             items |-> <<Volume(1)>>]
      [] endpoint = "books/volumes/id"  ->
            [isNull |-> FALSE, hasVolumeInfo |-> TRUE, volume |-> Volume(1)]
      [] endpoint = "tmdb/search/movie" -> [results |-> <<Item(1)>>]
      [] endpoint = "tmdb/search/tv"    -> [results |-> <<Item(1)>>]
      [] endpoint = "tmdb/movie/id"     -> Item(1)
      [] endpoint = "tmdb/tv/id"        -> Item(1)
      [] endpoint = "bgg/search"        -> [items |-> <<XmlItem(1)>>]
      [] endpoint = "bgg/thing"         ->
            [items |-> <<[id |-> toString(1), thumbnail |-> "https://img"]>>]
      [] endpoint = "bgg/thing/stats"   -> [items |-> <<XmlItem(1)>>]

\* HTTP status codes the environment answers with
Statuses == {200, 401, 403, 404, 500}

\* what an await of requestUrl resumes with: the request throws, or a
\* response arrives
Responses(endpoint) ==
    {[threw |-> TRUE, status |-> 0, body |-> ErrorBody(endpoint)]}
    \cup {[threw |-> FALSE, status |-> 200, body |-> b] : b \in Bodies(endpoint)}
    \cup {[threw |-> FALSE, status |-> s, body |-> ErrorBody(endpoint)] :
             s \in Statuses \ {200}}

(* ------------------------------- inputs ------------------------------- *)

\* the title searched for: one that encodeURIComponent changes
Titles == {<<"a", " ", "b">>}

\* ids asked for: a plain id and a TMDB series id
Ids == {<<"1">>, <<"t", "v", "-", "1">>}

(* -------------------------------- state ------------------------------- *)

VARIABLES
    api,        \* apiName of the adapter instance the calls are made on
    settings,   \* plugin.settings, as far as the adapter reads it
    call,       \* call[c]: the invocation c of searchByTitle / getById
    modal,      \* the MediaDbSearchResultModal, if one has been constructed
    text        \* a description text and what the field normalisation made of it

vars == <<api, settings, call, modal, text>>

Calls == 1..MaxCalls

\* an invocation that has not been made yet
NoCall ==
    [pc |-> "idle", op |-> "", arg |-> <<>>, ret |-> <<>>, err |-> "",
     reqs |-> <<>>, resps |-> <<>>, log |-> <<>>]

\* error messages, by their fixed part
ErrKeyMissing == "API key missing"
ErrAuth == "Authentication failed"
ErrNotFound == "not found"
ErrStatus == "Received status code"
ErrNoData == "No data received"
ErrInvalidData == "Received invalid data"
\* the exception a failed requestUrl rejects with
ErrRequest == "request exception"

(* --------------------- steps common to the adapters ------------------- *)
\* cr is the record of one invocation.  ret, err and pc are the method's
\* locals and outcome; reqs, resps and log record what it did.

Ev(tag, n) == [ev |-> tag, req |-> n]

\* the method is entered with its argument
Enter(o, a) == [NoCall EXCEPT !.op = o, !.arg = a]

\* const url = ...; await requestUrl({url}): the request is built, issued,
\* and the method waits at label
Request(cr, url, label) ==
    [cr EXCEPT !.reqs = Append(@, url),
               !.log = @ \o <<Ev("build", Len(cr.reqs) + 1),
                              Ev("request", Len(cr.reqs) + 1)>>,
               !.pc = label]

\* the await resumes with r
Received(cr, r) ==
    [cr EXCEPT !.resps = Append(@, r),
               !.log = Append(@, Ev(IF r.threw THEN "exception" ELSE "response",
                                    Len(cr.resps) + 1))]

\* the status of the latest response is compared
Checked(cr) == [cr EXCEPT !.log = Append(@, Ev("check", Len(cr.resps)))]

\* .json / .text of the latest response is read and parsed
Parsed(cr) == [cr EXCEPT !.log = Append(@, Ev("parse", Len(cr.resps)))]

\* fields are mapped and models constructed from the latest response
Constructed(cr, ms) ==
    IF ms = <<>> THEN cr
    ELSE [cr EXCEPT !.log = @ \o <<Ev("map", Len(cr.resps)),
                                   Ev("construct", Len(cr.resps))>>]

\* throw Error(msg)
Throw(cr, msg) == [cr EXCEPT !.pc = "threw", !.err = msg]

\* return ret
Return(cr, ret) == [cr EXCEPT !.pc = "returned", !.ret = ret]

\* the media model a constructor builds: the fields the model tracks
Model(type, title, id, image, a) ==
    [type |-> type, title |-> title, englishTitle |-> title,
     dataSource |-> a, id |-> id, image |-> image]

\* Array.prototype.map over a list

(* ------------------------------- RawgAPI ------------------------------ *)

Rawg_searchUrl(title, s) ==
    [endpoint |-> "rawg/games", base |-> apiUrl("RawgAPI"),
     arg |-> EncodeURIComponent(title), key |-> s.RawgKey]

Rawg_detailUrl(id, s) ==
    [endpoint |-> "rawg/games/id", base |-> apiUrl("RawgAPI"),
     arg |-> EncodeURIComponent(id), key |-> s.RawgKey]

\* new GameModel({...}) of a search result / of the game details
Rawg_GameModel(result) ==
    Model("game", result.name, toString(result.id), "", "RawgAPI")

\* searchByTitle up to its await
Rawg_searchByTitle_begin(title, s) ==
    IF s.RawgKey = "" THEN Throw(Enter("searchByTitle", title), ErrKeyMissing)
    ELSE Request(Enter("searchByTitle", title), Rawg_searchUrl(title, s),
                 "await_search")

\* Array.prototype.filter keeping the first model of every id
RECURSIVE DedupById(_)
DedupById(ms) ==
    IF ms = <<>> THEN <<>>
    ELSE LET front == DedupById(SubSeq(ms, 1, Len(ms) - 1))
             last == ms[Len(ms)]
         IN  IF \E i \in 1..Len(front) : front[i].id = last.id
             THEN front ELSE Append(front, last)

\* mutant: the status of the response is never compared
Rawg_searchByTitle_resume_Unchecked(cr, r) ==
    IF r.threw THEN Throw(Received(cr, r), ErrRequest)
    ELSE LET ret == [i \in 1..Len(r.body.results) |-> Rawg_GameModel(r.body.results[i])]
         IN  Return(Constructed(Parsed(Received(cr, r)), ret), ret)

\* mutant: results with an id already returned are dropped
Rawg_searchByTitle_resume_Dedup(cr, r) ==
    IF r.threw THEN Throw(Received(cr, r), ErrRequest)
    ELSE IF r.status = 401 THEN Throw(Checked(Received(cr, r)), ErrAuth)
    ELSE IF r.status # 200 THEN Throw(Checked(Received(cr, r)), ErrStatus)
    ELSE LET ret == DedupById([i \in 1..Len(r.body.results) |-> Rawg_GameModel(r.body.results[i])])
         IN  Return(Constructed(Parsed(Checked(Received(cr, r))), ret), ret)

\* searchByTitle from its await on
Rawg_searchByTitle_resume(cr, r) ==
    IF r.threw THEN Throw(Received(cr, r), ErrRequest)
    ELSE IF r.status = 401 THEN Throw(Checked(Received(cr, r)), ErrAuth)
    ELSE IF r.status # 200 THEN Throw(Checked(Received(cr, r)), ErrStatus)
    ELSE LET ret == [i \in 1..Len(r.body.results) |-> Rawg_GameModel(r.body.results[i])]
         IN  Return(Constructed(Parsed(Checked(Received(cr, r))), ret), ret)

\* getById up to its await
Rawg_getById_begin(id, s) ==
    IF s.RawgKey = "" THEN Throw(Enter("getById", id), ErrKeyMissing)
    ELSE Request(Enter("getById", id), Rawg_detailUrl(id, s), "await_details")

\* mutant: status 404 is not told apart from the other statuses
Rawg_getById_resume_No404(cr, r) ==
    IF r.threw THEN Throw(Received(cr, r), ErrRequest)
    ELSE IF r.status = 401 THEN Throw(Checked(Received(cr, r)), ErrAuth)
    ELSE IF r.status # 200 THEN Throw(Checked(Received(cr, r)), ErrStatus)
    ELSE LET ret == <<Rawg_GameModel(r.body)>>
         IN  Return(Constructed(Parsed(Checked(Received(cr, r))), ret), ret)

\* getById from its await on
Rawg_getById_resume(cr, r) ==
    IF r.threw THEN Throw(Received(cr, r), ErrRequest)
    ELSE IF r.status = 401 THEN Throw(Checked(Received(cr, r)), ErrAuth)
    ELSE IF r.status = 404 THEN Throw(Checked(Received(cr, r)), ErrNotFound)
    ELSE IF r.status # 200 THEN Throw(Checked(Received(cr, r)), ErrStatus)
    ELSE LET ret == <<Rawg_GameModel(r.body)>>
         IN  Return(Constructed(Parsed(Checked(Received(cr, r))), ret), ret)

(* ---------------------------- GoogleBooksAPI -------------------------- *)

GoogleBooks_searchUrl(title, s) ==
    [endpoint |-> "books/volumes", base |-> apiUrl("GoogleBooksAPI"),
     arg |-> EncodeURIComponent(title), key |-> s.GoogleBooksKey]

\* the id goes into the URL as it is
GoogleBooks_detailUrl(id, s) ==
    [endpoint |-> "books/volumes/id", base |-> apiUrl("GoogleBooksAPI"),
     arg |-> id, key |-> s.GoogleBooksKey]

\* new BookModel({...}) of a search result
GoogleBooks_SearchModel(item) ==
    Model("book", item.volumeInfo.title, item.id, "", "GoogleBooksAPI")

\* new BookModel({...}) of a volume: the id is the one asked for
GoogleBooks_DetailModel(data, id) ==
    Model("book", data.volumeInfo.title, id, "", "GoogleBooksAPI")

GoogleBooks_searchByTitle_begin(title, s) ==
    IF s.GoogleBooksKey = ""
    THEN Throw(Enter("searchByTitle", title), ErrKeyMissing)
    ELSE Request(Enter("searchByTitle", title),
                 GoogleBooks_searchUrl(title, s), "await_search")

\* mutant: a body without items is iterated all the same and throws
GoogleBooks_searchByTitle_resume_NoGuard(cr, r) ==
    IF r.threw THEN Throw(Received(cr, r), ErrRequest)
    ELSE IF r.status = 401 \/ r.status = 403
    THEN Throw(Checked(Received(cr, r)), ErrAuth)
    ELSE IF r.status # 200 THEN Throw(Checked(Received(cr, r)), ErrStatus)
    ELSE LET data == r.body
             cr1 == Parsed(Checked(Received(cr, r)))
         IN  IF data.isNull \/ ~data.hasItems
             THEN Throw(cr1, "TypeError")
             ELSE LET results == [i \in 1..Len(data.items) |->
                                     GoogleBooks_SearchModel(data.items[i])]
                  IN  Return(Constructed(cr1, results), results)

\* searchByTitle from its await on
GoogleBooks_searchByTitle_resume(cr, r) ==
    IF r.threw THEN Throw(Received(cr, r), ErrRequest)
    ELSE IF r.status = 401 \/ r.status = 403
    THEN Throw(Checked(Received(cr, r)), ErrAuth)
    ELSE IF r.status # 200 THEN Throw(Checked(Received(cr, r)), ErrStatus)
    ELSE LET data == r.body
             cr1 == Parsed(Checked(Received(cr, r)))
         IN  IF data.isNull \/ data.totalItems = 0 \/ ~data.hasItems
             THEN Return(cr1, <<>>)
             ELSE LET results == [i \in 1..Len(data.items) |-> GoogleBooks_SearchModel(data.items[i])]
                  IN  Return(Constructed(cr1, results), results)

GoogleBooks_getById_begin(id, s) ==
    IF s.GoogleBooksKey = "" THEN Throw(Enter("getById", id), ErrKeyMissing)
    ELSE Request(Enter("getById", id), GoogleBooks_detailUrl(id, s),
                 "await_details")

\* mutant: the check for any other status than 200 is missing
GoogleBooks_getById_resume_NoStatusCheck(cr, r) ==
    IF r.threw THEN Throw(Received(cr, r), ErrRequest)
    ELSE IF r.status = 401 \/ r.status = 403
    THEN Throw(Checked(Received(cr, r)), ErrAuth)
    ELSE IF r.status = 404 THEN Throw(Checked(Received(cr, r)), ErrNotFound)
    ELSE LET data == r.body
             cr1 == Parsed(Checked(Received(cr, r)))
         IN  IF data.isNull \/ ~data.hasVolumeInfo
             THEN Throw(cr1, ErrNoData)
             ELSE LET ret == <<GoogleBooks_DetailModel(data.volume, cr.arg)>>
                  IN  Return(Constructed(cr1, ret), ret)

GoogleBooks_getById_resume(cr, r) ==
    IF r.threw THEN Throw(Received(cr, r), ErrRequest)
    ELSE IF r.status = 401 \/ r.status = 403
    THEN Throw(Checked(Received(cr, r)), ErrAuth)
    ELSE IF r.status = 404 THEN Throw(Checked(Received(cr, r)), ErrNotFound)
    ELSE IF r.status # 200 THEN Throw(Checked(Received(cr, r)), ErrStatus)
    ELSE LET data == r.body
             cr1 == Parsed(Checked(Received(cr, r)))
         IN  IF data.isNull \/ ~data.hasVolumeInfo
             THEN Throw(cr1, ErrNoData)
             ELSE LET ret == <<GoogleBooks_DetailModel(data.volume, cr.arg)>>
                  IN  Return(Constructed(cr1, ret), ret)

(* ------------------------------- TMDBAPI ------------------------------ *)

\* getDisabledMediaTypes()
TMDB_getDisabledMediaTypes(s) == s.TMDBAPI_disabledMediaTypes

\* APIModel.hasType: the adapter serves the type and it is not disabled
hasType(a, type, disabled) == type \in types(a) /\ type \notin disabled

TMDB_searchMovieUrl(title, s) ==
    [endpoint |-> "tmdb/search/movie", base |-> apiUrl("TMDBAPI"),
     arg |-> EncodeURIComponent(title), key |-> s.TMDBKey]

TMDB_searchTvUrl(title, s) ==
    [endpoint |-> "tmdb/search/tv", base |-> apiUrl("TMDBAPI"),
     arg |-> EncodeURIComponent(title), key |-> s.TMDBKey]

TMDB_movieUrl(id, s) ==
    [endpoint |-> "tmdb/movie/id", base |-> apiUrl("TMDBAPI"),
     arg |-> id, key |-> s.TMDBKey]

TMDB_tvUrl(id, s) ==
    [endpoint |-> "tmdb/tv/id", base |-> apiUrl("TMDBAPI"),
     arg |-> id, key |-> s.TMDBKey]

\* new MovieModel({...}): id is result.id.toString()
TMDB_MovieModel(result) ==
    Model("movie", result.name, toString(result.id), "", "TMDBAPI")

\* new SeriesModel({...}): id is `tv-${result.id}`
TMDB_SeriesModel(result) ==
    Model("series", result.name, <<"t", "v", "-">> \o toString(result.id), "",
          "TMDBAPI")

\* the models pushed for a movie search answer with status 200
TMDB_movieResults(body) ==
    [i \in 1..Len(Slice(body.results, TMDBSliceLimit)) |->
        TMDB_MovieModel(Slice(body.results, TMDBSliceLimit)[i])]

\* mutant: the TV results are not cut to the first ten
TMDB_tvResults_NoSlice(body) == [i \in 1..Len(body.results) |-> TMDB_SeriesModel(body.results[i])]

\* the models pushed for a TV search answer with status 200
TMDB_tvResults(body) ==
    [i \in 1..Len(Slice(body.results, TMDBSliceLimit)) |->
        TMDB_SeriesModel(Slice(body.results, TMDBSliceLimit)[i])]

\* searchByTitle from "Search for TV shows" up to the next await or return
TMDB_searchByTitle_tv(cr, s) ==
    IF hasType("TMDBAPI", "series", TMDB_getDisabledMediaTypes(s))
    THEN Request(cr, TMDB_searchTvUrl(cr.arg, s), "await_tv")
    ELSE Return(cr, cr.ret)

\* searchByTitle up to its first await
TMDB_searchByTitle_begin(title, s) ==
    IF s.TMDBKey = "" THEN Throw(Enter("searchByTitle", title), ErrKeyMissing)
    ELSE IF hasType("TMDBAPI", "movie", TMDB_getDisabledMediaTypes(s))
    THEN Request(Enter("searchByTitle", title), TMDB_searchMovieUrl(title, s),
                 "await_movie")
    ELSE TMDB_searchByTitle_tv(Enter("searchByTitle", title), s)

\* the try block around the movie search, from its await on
TMDB_searchByTitle_movieResponse(cr, r) ==
    IF r.threw THEN Received(cr, r)
    ELSE IF r.status = 200
    THEN LET ms == TMDB_movieResults(r.body)
         IN  [Constructed(Parsed(Checked(Received(cr, r))), ms)
                 EXCEPT !.ret = cr.ret \o ms]
    ELSE Checked(Received(cr, r))

\* mutant: a failed movie search is asked once more
TMDB_searchByTitle_resumeMovie_Retry(cr, r, s) ==
    IF (r.threw \/ r.status # 200) /\ Len(cr.reqs) < 2
    THEN Request(TMDB_searchByTitle_movieResponse(cr, r),
                 TMDB_searchMovieUrl(cr.arg, s), "await_movie")
    ELSE TMDB_searchByTitle_tv(TMDB_searchByTitle_movieResponse(cr, r), s)

\* mutant: the movie search is not wrapped in try / catch
TMDB_searchByTitle_resumeMovie_NoCatch(cr, r, s) ==
    IF r.threw THEN Throw(Received(cr, r), ErrRequest)
    ELSE TMDB_searchByTitle_tv(TMDB_searchByTitle_movieResponse(cr, r), s)

\* searchByTitle from the movie await to the next await or return
TMDB_searchByTitle_resumeMovie(cr, r, s) ==
    TMDB_searchByTitle_tv(TMDB_searchByTitle_movieResponse(cr, r), s)

\* the try block around the TV search, from its await on
TMDB_searchByTitle_tvResponse(cr, r) ==
    IF r.threw THEN Received(cr, r)
    ELSE IF r.status = 200
    THEN LET ms == TMDB_tvResults(r.body)
         IN  [Constructed(Parsed(Checked(Received(cr, r))), ms)
                 EXCEPT !.ret = cr.ret \o ms]
    ELSE Checked(Received(cr, r))

\* searchByTitle from the TV await to its return
TMDB_searchByTitle_resumeTv(cr, r) ==
    LET cr1 == TMDB_searchByTitle_tvResponse(cr, r)
    IN  Return(cr1, cr1.ret)

\* mutant: the key check is missing
TMDB_getById_begin_NoKeyCheck(id, s) ==
    LET isTVShow == StartsWith(id, <<"t", "v", "-">>)
        actualId == IF isTVShow
                    THEN ReplaceFirst(id, <<"t", "v", "-">>, <<>>)
                    ELSE id
    IN  IF isTVShow
        THEN Request(Enter("getById", id), TMDB_tvUrl(actualId, s),
                     "await_tv_details")
        ELSE Request(Enter("getById", id), TMDB_movieUrl(actualId, s),
                     "await_movie_details")

\* mutant: the 'tv-' prefix is not looked at, every id is asked of /movie
TMDB_getById_begin_AlwaysMovie(id, s) ==
    IF s.TMDBKey = "" THEN Throw(Enter("getById", id), ErrKeyMissing)
    ELSE Request(Enter("getById", id), TMDB_movieUrl(id, s),
                 "await_movie_details")

\* getById up to the await of getTVShowById / getMovieById
TMDB_getById_begin(id, s) ==
    IF s.TMDBKey = "" THEN Throw(Enter("getById", id), ErrKeyMissing)
    ELSE LET isTVShow == StartsWith(id, <<"t", "v", "-">>)
             actualId == IF isTVShow
                         THEN ReplaceFirst(id, <<"t", "v", "-">>, <<>>)
                         ELSE id
         IN  IF isTVShow
             THEN Request(Enter("getById", id), TMDB_tvUrl(actualId, s),
                          "await_tv_details")
             ELSE Request(Enter("getById", id), TMDB_movieUrl(actualId, s),
                          "await_movie_details")

\* getMovieById from its await on
TMDB_getMovieById_resume(cr, r) ==
    IF r.threw THEN Throw(Received(cr, r), ErrRequest)
    ELSE IF r.status = 401 THEN Throw(Checked(Received(cr, r)), ErrAuth)
    ELSE IF r.status # 200 THEN Throw(Checked(Received(cr, r)), ErrStatus)
    ELSE LET ret == <<TMDB_MovieModel(r.body)>>
         IN  Return(Constructed(Parsed(Checked(Received(cr, r))), ret), ret)

\* getTVShowById from its await on
TMDB_getTVShowById_resume(cr, r) ==
    IF r.threw THEN Throw(Received(cr, r), ErrRequest)
    ELSE IF r.status = 401 THEN Throw(Checked(Received(cr, r)), ErrAuth)
    ELSE IF r.status # 200 THEN Throw(Checked(Received(cr, r)), ErrStatus)
    ELSE LET ret == <<TMDB_SeriesModel(r.body)>>
         IN  Return(Constructed(Parsed(Checked(Received(cr, r))), ret), ret)

(* --------------------------- BoardGameGeekAPI ------------------------- *)

BGG_searchUrl(title, s) ==
    [endpoint |-> "bgg/search", base |-> apiUrl("BoardGameGeekAPI"),
     arg |-> EncodeURIComponent(title), key |-> s.BoardgameGeekKey]

\* the thumbnail batch request: the ids joined by commas, not encoded
BGG_detailsUrl(ids, s) ==
    [endpoint |-> "bgg/thing", base |-> apiUrl("BoardGameGeekAPI"),
     arg |-> ids, key |-> s.BoardgameGeekKey]

BGG_thingUrl(id, s) ==
    [endpoint |-> "bgg/thing/stats", base |-> apiUrl("BoardGameGeekAPI"),
     arg |-> EncodeURIComponent(id), key |-> s.BoardgameGeekKey]

\* item.querySelector('yearpublished')?.getAttribute('value') ?? ''
BGG_year(item) ==
    IF item.yearpublished = <<>> THEN "" ELSE item.yearpublished[1]

\* new BoardGameModel(obj): image starts as '', the fields of obj are copied
\* over, the type is getMediaType()
BoardGameModel(obj) ==
    [type |-> "boardgame", title |-> obj.title, englishTitle |-> obj.title,
     dataSource |-> obj.dataSource, id |-> obj.id, image |-> "",
     year |-> obj.year]

\* the model pushed for an <item> of the search answer
BGG_SearchModel(item) ==
    BoardGameModel([dataSource |-> "BoardGameGeekAPI", id |-> item.id,
                    title |-> item.name, year |-> BGG_year(item)])

\* ret.find(r => r.id === itemId): the index of the first match, 0 if none
FindById(ret, itemId) ==
    IF \E i \in 1..Len(ret) : ret[i].id = itemId
    THEN CHOOSE i \in 1..Len(ret) :
             /\ ret[i].id = itemId
             /\ \A j \in 1..(i - 1) : ret[j].id # itemId
    ELSE 0

\* mutant: the thumbnail is set on every model with the item's id
BGG_setThumbnail_AllMatching(ret, item) ==
    [i \in 1..Len(ret) |->
        IF ret[i].id = item.id /\ item.thumbnail # ""
        THEN [ret[i] EXCEPT !.image = item.thumbnail]
        ELSE ret[i]]

\* the body of the loop over the items of the /thing answer
BGG_setThumbnail(ret, item) ==
    LET m == FindById(ret, item.id)
    IN  IF m # 0 /\ item.thumbnail # ""
        THEN [ret EXCEPT ![m].image = item.thumbnail]
        ELSE ret

RECURSIVE BGG_setThumbnails(_, _)
\* the loop over the items of the /thing answer, in order
BGG_setThumbnails(ret, items) ==
    IF items = <<>> THEN ret
    ELSE BGG_setThumbnails(BGG_setThumbnail(ret, Head(items)), Tail(items))

NonEmpty(x) == x # <<>>

\* ret.map(r => r.id).filter(Boolean).join(',')
BGG_ids(ret) == Join(SelectSeq([i \in 1..Len(ret) |-> ret[i].id], NonEmpty), <<",">>)

\* searchByTitle up to its first await
BGG_searchByTitle_begin(title, s) ==
    Request(Enter("searchByTitle", title), BGG_searchUrl(title, s),
            "await_search")

\* searchByTitle from the search await to the thumbnail await or return
BGG_searchByTitle_resume(cr, r, s) ==
    IF r.threw THEN Throw(Received(cr, r), ErrRequest)
    ELSE IF r.status = 401 THEN Throw(Checked(Received(cr, r)), ErrAuth)
    ELSE IF r.status # 200 THEN Throw(Checked(Received(cr, r)), ErrStatus)
    ELSE LET ret == [i \in 1..Len(r.body.items) |-> BGG_SearchModel(r.body.items[i])]
             cr1 == [Constructed(Parsed(Checked(Received(cr, r))), ret)
                        EXCEPT !.ret = ret]
         IN  IF Len(ret) > 0
             THEN Request(cr1, BGG_detailsUrl(BGG_ids(ret), s),
                          "await_thumbnails")
             ELSE Return(cr1, ret)

\* mutant: the thumbnail request is not wrapped in try / catch and its
\* status is checked like the search's
BGG_searchByTitle_resumeThumbnails_NoCatch(cr, r) ==
    IF r.threw THEN Throw(Received(cr, r), ErrRequest)
    ELSE IF r.status # 200 THEN Throw(Checked(Received(cr, r)), ErrStatus)
    ELSE Return(Parsed(Checked(Received(cr, r))),
                BGG_setThumbnails(cr.ret, r.body.items))

\* searchByTitle from the thumbnail await to its return
BGG_searchByTitle_resumeThumbnails(cr, r) ==
    IF r.threw THEN Return(Received(cr, r), cr.ret)
    ELSE IF r.status = 200
    THEN Return(Parsed(Checked(Received(cr, r))),
                BGG_setThumbnails(cr.ret, r.body.items))
    ELSE Return(Checked(Received(cr, r)), cr.ret)

BGG_getById_begin(id, s) ==
    Request(Enter("getById", id), BGG_thingUrl(id, s), "await_details")

\* mutant: the check for a missing <item> is left out; the optional chains
\* of the field reads then give a model without title and year
BGG_getById_resume_NoItemCheck(cr, r) ==
    IF r.threw THEN Throw(Received(cr, r), ErrRequest)
    ELSE IF r.status = 401 THEN Throw(Checked(Received(cr, r)), ErrAuth)
    ELSE IF r.status # 200 THEN Throw(Checked(Received(cr, r)), ErrStatus)
    ELSE LET cr1 == Parsed(Checked(Received(cr, r)))
             item == IF r.body.items = <<>>
                     THEN [name |-> <<>>, yearpublished |-> <<>>]
                     ELSE r.body.items[1]
             ret == <<BoardGameModel(
                         [dataSource |-> "BoardGameGeekAPI",
                          id |-> cr.arg, title |-> item.name,
                          year |-> IF BGG_year(item) = "0" THEN ""
                                   ELSE BGG_year(item)])>>
         IN  Return(Constructed(cr1, ret), ret)

\* getById from its await on
BGG_getById_resume(cr, r) ==
    IF r.threw THEN Throw(Received(cr, r), ErrRequest)
    ELSE IF r.status = 401 THEN Throw(Checked(Received(cr, r)), ErrAuth)
    ELSE IF r.status # 200 THEN Throw(Checked(Received(cr, r)), ErrStatus)
    ELSE LET cr1 == Parsed(Checked(Received(cr, r)))
         IN  IF r.body.items = <<>> THEN Throw(cr1, ErrInvalidData)
             ELSE LET item == r.body.items[1]
                      ret == <<BoardGameModel(
                                  [dataSource |-> "BoardGameGeekAPI",
                                   id |-> cr.arg, title |-> item.name,
                                   year |-> IF BGG_year(item) = "0" THEN ""
                                            ELSE BGG_year(item)])>>
                  IN  Return(Constructed(cr1, ret), ret)

(* ----------------------- MediaDbSearchResultModal -------------------- *)
\* The modal object: its fields, the elements the SelectModal base class
\* keeps for it, and a record of the callbacks it has invoked.

\* the lists of search results a modal is opened with: every length up to
\* MaxElements, the results not in the order of their ids
ElementLists ==
    {[i \in 1..n |-> Rawg_GameModel(Item(n + 1 - i))] : n \in 0..MaxElements}

\* constructor(plugin, selectModalOptions): busy and sendCallback are
\* false, no callback is set; the base class holds one element per entry of
\* selectModalOptions.elements, none active
MediaDbSearchResultModal(elements) ==
    [busy |-> FALSE, sendCallback |-> FALSE,
     selectModalElements |->
         [i \in 1..Len(elements) |-> [value |-> elements[i], active |-> FALSE]],
     submitCallback |-> FALSE, closeCallback |-> FALSE, skipCallback |-> FALSE,
     submitButtonText |-> "Ok", skipButtonText |-> "Skip",
     submitted |-> <<>>, skipped |-> 0, closed |-> 0, submits |-> 0]

\* setSubmitCallback(submitCallback)
setSubmitCallback(m) == [m EXCEPT !.submitCallback = TRUE]

\* setCustomCloseCallback(closeCallback)
setCustomCloseCallback(m) == [m EXCEPT !.closeCallback = TRUE]

\* setSkipCallback(skipCallback)
setSkipCallback(m) == [m EXCEPT !.skipCallback = TRUE]

\* SelectModalElement.isActive()
isActive(x) == x.active

\* SelectModalElement.setActive(active), on element i
setActive(m, i, active) == [m EXCEPT !.selectModalElements[i].active = active]

\* this.selectModalElements.filter(x => x.isActive()).map(x => x.value)
Selected(m) ==
    LET act == SelectSeq(m.selectModalElements, isActive)
    IN  [k \in 1..Len(act) |-> act[k].value]

\* mutant: the busy flag is not looked at
submit_NoBusyCheck(m) ==
    [m EXCEPT !.busy = TRUE,
              !.submitButtonText = "Creating entry...",
              !.submitted = IF m.submitCallback
                            THEN Append(@, [selected |-> Selected(m)])
                            ELSE @,
              !.submits = @ + 1]

\* mutant: the values of all elements are passed on, active or not
submit_NoFilter(m) ==
    IF ~m.busy
    THEN [m EXCEPT !.busy = TRUE,
                   !.submitButtonText = "Creating entry...",
                   !.submitted =
                       IF m.submitCallback
                       THEN Append(@, [selected |->
                                [k \in 1..Len(m.selectModalElements) |->
                                    m.selectModalElements[k].value]])
                       ELSE @,
                   !.submits = @ + 1]
    ELSE [m EXCEPT !.submits = @ + 1]

\* submit(): submitted records the data handed to submitCallback, submits
\* counts the calls of submit()
submit(m) ==
    IF ~m.busy
    THEN [m EXCEPT !.busy = TRUE,
                   !.submitButtonText = "Creating entry...",
                   !.submitted = IF m.submitCallback
                                 THEN Append(@, [selected |-> Selected(m)])
                                 ELSE @,
                   !.submits = @ + 1]
    ELSE [m EXCEPT !.submits = @ + 1]

\* skip(): skipped counts the invocations of skipCallback
skip(m) ==
    [m EXCEPT !.skipButtonText = "Skipping...",
              !.skipped = IF m.skipCallback THEN @ + 1 ELSE @]

\* onClose(): closed counts the invocations of closeCallback
onClose(m) == [m EXCEPT !.closed = IF m.closeCallback THEN @ + 1 ELSE @]

(* ------------------------------- actions ------------------------------ *)

\* the endpoint an awaiting invocation has asked last
Awaited(cr) == cr.reqs[Len(cr.reqs)].endpoint

\* invocation c has returned or thrown and its caller has not resumed yet
Completed(c) == call[c].pc \in {"returned", "threw"}

\* a settled promise resumes its caller before any other callback runs, so
\* a method starts or resumes only when no outcome waits for its caller
At(c, label) ==
    /\ call[c].pc = label
    /\ \A d \in Calls : ~Completed(d)

Init ==
    /\ api \in APIs
    /\ settings \in SettingsOf(api)
    /\ call = [c \in Calls |-> NoCall]
    /\ modal = MediaDbSearchResultModal(<<>>)
    /\ text = NoText(<<>>)

Rawg_searchByTitle(c) ==
    /\ api = "RawgAPI" /\ At(c, "idle")
    /\ \E title \in Titles :
          call' = [call EXCEPT ![c] = Rawg_searchByTitle_begin(title, settings)]
    /\ UNCHANGED <<api, settings, modal, text>>

Rawg_searchByTitle_await(c) ==
    /\ api = "RawgAPI" /\ At(c, "await_search")
    /\ \E r \in Responses(Awaited(call[c])) :
          call' = [call EXCEPT ![c] = Rawg_searchByTitle_resume(call[c], r)]
    /\ UNCHANGED <<api, settings, modal, text>>

\* mutant: the result of a getById that just returned is kept and handed to
\* the next getById of the same id, without a request
Rawg_getById_Cached(c) ==
    /\ api = "RawgAPI" /\ call[c].pc = "idle"
    /\ \E id \in Ids :
          call' = [call EXCEPT ![c] =
                     IF \E d \in Calls : /\ call[d].pc = "returned"
                                         /\ call[d].op = "getById"
                                         /\ call[d].arg = id
                     THEN Return(Enter("getById", id),
                                 call[CHOOSE d \in Calls :
                                          /\ call[d].pc = "returned"
                                          /\ call[d].op = "getById"
                                          /\ call[d].arg = id].ret)
                     ELSE Rawg_getById_begin(id, settings)]
    /\ UNCHANGED <<api, settings, modal, text>>

Rawg_getById(c) ==
    /\ api = "RawgAPI" /\ At(c, "idle")
    /\ \E id \in Ids :
          call' = [call EXCEPT ![c] = Rawg_getById_begin(id, settings)]
    /\ UNCHANGED <<api, settings, modal, text>>

Rawg_getById_await(c) ==
    /\ api = "RawgAPI" /\ At(c, "await_details")
    /\ \E r \in Responses(Awaited(call[c])) :
          call' = [call EXCEPT ![c] = Rawg_getById_resume(call[c], r)]
    /\ UNCHANGED <<api, settings, modal, text>>

GoogleBooks_searchByTitle(c) ==
    /\ api = "GoogleBooksAPI" /\ At(c, "idle")
    /\ \E title \in Titles :
          call' = [call EXCEPT
                     ![c] = GoogleBooks_searchByTitle_begin(title, settings)]
    /\ UNCHANGED <<api, settings, modal, text>>

GoogleBooks_searchByTitle_await(c) ==
    /\ api = "GoogleBooksAPI" /\ At(c, "await_search")
    /\ \E r \in Responses(Awaited(call[c])) :
          call' = [call EXCEPT
                     ![c] = GoogleBooks_searchByTitle_resume(call[c], r)]
    /\ UNCHANGED <<api, settings, modal, text>>

GoogleBooks_getById(c) ==
    /\ api = "GoogleBooksAPI" /\ At(c, "idle")
    /\ \E id \in Ids :
          call' = [call EXCEPT ![c] = GoogleBooks_getById_begin(id, settings)]
    /\ UNCHANGED <<api, settings, modal, text>>

GoogleBooks_getById_await(c) ==
    /\ api = "GoogleBooksAPI" /\ At(c, "await_details")
    /\ \E r \in Responses(Awaited(call[c])) :
          call' = [call EXCEPT ![c] = GoogleBooks_getById_resume(call[c], r)]
    /\ UNCHANGED <<api, settings, modal, text>>

TMDB_searchByTitle(c) ==
    /\ api = "TMDBAPI" /\ At(c, "idle")
    /\ \E title \in Titles :
          call' = [call EXCEPT ![c] = TMDB_searchByTitle_begin(title, settings)]
    /\ UNCHANGED <<api, settings, modal, text>>

TMDB_searchByTitle_awaitMovie(c) ==
    /\ api = "TMDBAPI" /\ At(c, "await_movie")
    /\ \E r \in Responses(Awaited(call[c])) :
          call' = [call EXCEPT
                     ![c] = TMDB_searchByTitle_resumeMovie(call[c], r, settings)]
    /\ UNCHANGED <<api, settings, modal, text>>

\* mutant: ret is a field of the adapter, shared by the invocations
TMDB_searchByTitle_awaitTv_SharedRet(c) ==
    /\ api = "TMDBAPI" /\ At(c, "await_tv")
    /\ \E r \in Responses(Awaited(call[c])) :
          LET d == CHOOSE d \in Calls : call[d].pc = "await_tv"
          IN  call' = [call EXCEPT
                         ![c] = TMDB_searchByTitle_resumeTv(
                                   [call[c] EXCEPT !.ret = call[d].ret], r)]
    /\ UNCHANGED <<api, settings, modal, text>>

TMDB_searchByTitle_awaitTv(c) ==
    /\ api = "TMDBAPI" /\ At(c, "await_tv")
    /\ \E r \in Responses(Awaited(call[c])) :
          call' = [call EXCEPT ![c] = TMDB_searchByTitle_resumeTv(call[c], r)]
    /\ UNCHANGED <<api, settings, modal, text>>

TMDB_getById(c) ==
    /\ api = "TMDBAPI" /\ At(c, "idle")
    /\ \E id \in Ids :
          call' = [call EXCEPT ![c] = TMDB_getById_begin(id, settings)]
    /\ UNCHANGED <<api, settings, modal, text>>

TMDB_getMovieById_await(c) ==
    /\ api = "TMDBAPI" /\ At(c, "await_movie_details")
    /\ \E r \in Responses(Awaited(call[c])) :
          call' = [call EXCEPT ![c] = TMDB_getMovieById_resume(call[c], r)]
    /\ UNCHANGED <<api, settings, modal, text>>

TMDB_getTVShowById_await(c) ==
    /\ api = "TMDBAPI" /\ At(c, "await_tv_details")
    /\ \E r \in Responses(Awaited(call[c])) :
          call' = [call EXCEPT ![c] = TMDB_getTVShowById_resume(call[c], r)]
    /\ UNCHANGED <<api, settings, modal, text>>

BGG_searchByTitle(c) ==
    /\ api = "BoardGameGeekAPI" /\ At(c, "idle")
    /\ \E title \in Titles :
          call' = [call EXCEPT ![c] = BGG_searchByTitle_begin(title, settings)]
    /\ UNCHANGED <<api, settings, modal, text>>

BGG_searchByTitle_await(c) ==
    /\ api = "BoardGameGeekAPI" /\ At(c, "await_search")
    /\ \E r \in Responses(Awaited(call[c])) :
          call' = [call EXCEPT
                     ![c] = BGG_searchByTitle_resume(call[c], r, settings)]
    /\ UNCHANGED <<api, settings, modal, text>>

BGG_searchByTitle_awaitThumbnails(c) ==
    /\ api = "BoardGameGeekAPI" /\ At(c, "await_thumbnails")
    /\ \E r \in Responses(Awaited(call[c])) :
          call' = [call EXCEPT
                     ![c] = BGG_searchByTitle_resumeThumbnails(call[c], r)]
    /\ UNCHANGED <<api, settings, modal, text>>

BGG_getById(c) ==
    /\ api = "BoardGameGeekAPI" /\ At(c, "idle")
    /\ \E id \in Ids :
          call' = [call EXCEPT ![c] = BGG_getById_begin(id, settings)]
    /\ UNCHANGED <<api, settings, modal, text>>

BGG_getById_await(c) ==
    /\ api = "BoardGameGeekAPI" /\ At(c, "await_details")
    /\ \E r \in Responses(Awaited(call[c])) :
          call' = [call EXCEPT ![c] = BGG_getById_resume(call[c], r)]
    /\ UNCHANGED <<api, settings, modal, text>>

\* the caller of invocation c takes its outcome; the slot is free for the
\* caller's next invocation
Deliver(c) ==
    /\ Completed(c)
    /\ call' = [call EXCEPT ![c] = NoCall]
    /\ UNCHANGED <<api, settings, modal, text>>

Next ==
    \E c \in Calls :
        \/ Deliver(c)
        \/ Rawg_searchByTitle(c)
        \/ Rawg_searchByTitle_await(c)
        \/ Rawg_getById(c)
        \/ Rawg_getById_await(c)
        \/ GoogleBooks_searchByTitle(c)
        \/ GoogleBooks_searchByTitle_await(c)
        \/ GoogleBooks_getById(c)
        \/ GoogleBooks_getById_await(c)
        \/ TMDB_searchByTitle(c)
        \/ TMDB_searchByTitle_awaitMovie(c)
        \/ TMDB_searchByTitle_awaitTv(c)
        \/ TMDB_getById(c)
        \/ TMDB_getMovieById_await(c)
        \/ TMDB_getTVShowById_await(c)
        \/ BGG_searchByTitle(c)
        \/ BGG_searchByTitle_await(c)
        \/ BGG_searchByTitle_awaitThumbnails(c)
        \/ BGG_getById(c)
        \/ BGG_getById_await(c)

Spec == Init /\ [][Next]_vars

(* --------------------------- the modal alone -------------------------- *)

\* a modal is constructed over a list of search results; no adapter call
\* runs while it is open
ModalInit ==
    /\ api = "RawgAPI"
    /\ settings = [RawgKey |-> "k", GoogleBooksKey |-> "", TMDBKey |-> "",
                   BoardgameGeekKey |-> "", TMDBAPI_disabledMediaTypes |-> {}]
    /\ call = [c \in Calls |-> NoCall]
    /\ \E elements \in ElementLists :
          modal = MediaDbSearchResultModal(elements)
    /\ text = NoText(<<>>)

Modal_setSubmitCallback ==
    /\ modal' = setSubmitCallback(modal)
    /\ UNCHANGED <<api, settings, call, text>>

Modal_setCustomCloseCallback ==
    /\ modal' = setCustomCloseCallback(modal)
    /\ UNCHANGED <<api, settings, call, text>>

Modal_setSkipCallback ==
    /\ modal' = setSkipCallback(modal)
    /\ UNCHANGED <<api, settings, call, text>>

\* the user selects or deselects an element
Modal_setActive ==
    /\ \E i \in 1..Len(modal.selectModalElements), active \in BOOLEAN :
          modal' = setActive(modal, i, active)
    /\ UNCHANGED <<api, settings, call, text>>

Modal_submit ==
    /\ modal.submits < MaxModalCalls
    /\ modal' = submit(modal)
    /\ UNCHANGED <<api, settings, call, text>>

Modal_skip ==
    /\ modal.skipped < MaxModalCalls
    /\ modal' = skip(modal)
    /\ UNCHANGED <<api, settings, call, text>>

Modal_onClose ==
    /\ modal.closed < MaxModalCalls
    /\ modal' = onClose(modal)
    /\ UNCHANGED <<api, settings, call, text>>

ModalNext ==
    \/ Modal_setSubmitCallback
    \/ Modal_setCustomCloseCallback
    \/ Modal_setSkipCallback
    \/ Modal_setActive
    \/ Modal_submit
    \/ Modal_skip
    \/ Modal_onClose

ModalSpec == ModalInit /\ [][ModalNext]_vars

(* --------------------- field normalisation alone ---------------------- *)

\* a description text arrives in a response
TextInit ==
    /\ api = "GoogleBooksAPI"
    /\ settings = [RawgKey |-> "", GoogleBooksKey |-> "k", TMDBKey |-> "",
                   BoardgameGeekKey |-> "", TMDBAPI_disabledMediaTypes |-> {}]
    /\ call = [c \in Calls |-> NoCall]
    /\ modal = MediaDbSearchResultModal(<<>>)
    /\ \E input \in Texts(MaxPieces) : text = NoText(input)

\* const plot = this.cleanHtml(volumeInfo.description)
GoogleBooks_cleanHtml ==
    /\ text.fn = "none"
    /\ text' = [text EXCEPT !.fn = "cleanHtml", !.output = cleanHtml(text.input)]
    /\ UNCHANGED <<api, settings, call, modal>>

\* description = description.replace(...)...trim() in getById
BGG_decodeDescription ==
    /\ text.fn = "none"
    /\ text' = [text EXCEPT !.fn = "description",
                            !.output = BGG_description(text.input)]
    /\ UNCHANGED <<api, settings, call, modal>>

TextNext == GoogleBooks_cleanHtml \/ BGG_decodeDescription

TextSpec == TextInit /\ [][TextNext]_vars

(* ------------------- a method run without interleaving ---------------- *)

\* the method o of adapter a up to its first await
Begin(a, o, arg, s) ==
    CASE a = "RawgAPI" /\ o = "searchByTitle" ->
            Rawg_searchByTitle_begin(arg, s)
      [] a = "RawgAPI" /\ o = "getById" -> Rawg_getById_begin(arg, s)
      [] a = "GoogleBooksAPI" /\ o = "searchByTitle" ->
            GoogleBooks_searchByTitle_begin(arg, s)
      [] a = "GoogleBooksAPI" /\ o = "getById" ->
            GoogleBooks_getById_begin(arg, s)
      [] a = "TMDBAPI" /\ o = "searchByTitle" ->
            TMDB_searchByTitle_begin(arg, s)
      [] a = "TMDBAPI" /\ o = "getById" -> TMDB_getById_begin(arg, s)
      [] a = "BoardGameGeekAPI" /\ o = "searchByTitle" ->
            BGG_searchByTitle_begin(arg, s)
      [] a = "BoardGameGeekAPI" /\ o = "getById" -> BGG_getById_begin(arg, s)

\* the method of adapter a from the await it waits at, resumed with r
Resume(a, cr, r, s) ==
    CASE a = "RawgAPI" /\ cr.pc = "await_search" ->
            Rawg_searchByTitle_resume(cr, r)
      [] a = "RawgAPI" /\ cr.pc = "await_details" ->
            Rawg_getById_resume(cr, r)
      [] a = "GoogleBooksAPI" /\ cr.pc = "await_search" ->
            GoogleBooks_searchByTitle_resume(cr, r)
      [] a = "GoogleBooksAPI" /\ cr.pc = "await_details" ->
            GoogleBooks_getById_resume(cr, r)
      [] a = "TMDBAPI" /\ cr.pc = "await_movie" ->
            TMDB_searchByTitle_resumeMovie(cr, r, s)
      [] a = "TMDBAPI" /\ cr.pc = "await_tv" ->
            TMDB_searchByTitle_resumeTv(cr, r)
      [] a = "TMDBAPI" /\ cr.pc = "await_movie_details" ->
            TMDB_getMovieById_resume(cr, r)
      [] a = "TMDBAPI" /\ cr.pc = "await_tv_details" ->
            TMDB_getTVShowById_resume(cr, r)
      [] a = "BoardGameGeekAPI" /\ cr.pc = "await_search" ->
            BGG_searchByTitle_resume(cr, r, s)
      [] a = "BoardGameGeekAPI" /\ cr.pc = "await_thumbnails" ->
            BGG_searchByTitle_resumeThumbnails(cr, r)
      [] a = "BoardGameGeekAPI" /\ cr.pc = "await_details" ->
            BGG_getById_resume(cr, r)
      [] OTHER -> cr

RECURSIVE RunAlone(_, _, _, _)
\* the method continued from cr with the answers rs, nothing else running
RunAlone(a, cr, rs, s) ==
    IF rs = <<>> THEN cr
    ELSE RunAlone(a, Resume(a, cr, Head(rs), s), Tail(rs), s)

\* the method o(arg) of adapter a run alone and answered with rs
Alone(a, o, arg, s, rs) == RunAlone(a, Begin(a, o, arg, s), rs, s)

(* ------------------------ what the claims speak of -------------------- *)

\* invocation c has been made and its outcome not yet taken
Made(c) == call[c].pc # "idle"

\* number of events <<tag, n>> in the log of cr
Count(cr, tag, n) ==
    Cardinality({i \in 1..Len(cr.log) : cr.log[i] = Ev(tag, n)})

\* number of events tag in the log of cr
CountAll(cr, tag) ==
    Cardinality({i \in 1..Len(cr.log) : cr.log[i].ev = tag})

\* position of the first event <<tag, n>> in the log of cr, 0 if none
Pos(cr, tag, n) ==
    IF Count(cr, tag, n) = 0 THEN 0
    ELSE CHOOSE i \in 1..Len(cr.log) :
             /\ cr.log[i] = Ev(tag, n)
             /\ \A j \in 1..(i - 1) : cr.log[j] # Ev(tag, n)

\* the request failed: it threw, or was answered with a status other than 200
Failed(r) == r.threw \/ r.status # 200

\* the adapters whose methods check an API key first
KeyCheckedAPIs == {"RawgAPI", "GoogleBooksAPI", "TMDBAPI"}

\* the key setting the adapter's methods check
KeySetting(a, s) ==
    CASE a = "RawgAPI"          -> s.RawgKey
      [] a = "GoogleBooksAPI"   -> s.GoogleBooksKey
      [] a = "TMDBAPI"          -> s.TMDBKey
      [] a = "BoardGameGeekAPI" -> s.BoardgameGeekKey

KeyMissing == api \in KeyCheckedAPIs /\ KeySetting(api, settings) = ""

\* the media types TMDBAPI.searchByTitle searches
TMDBEnabled == {"movie", "series"} \ settings.TMDBAPI_disabledMediaTypes

IsTMDBSearch(c) == api = "TMDBAPI" /\ call[c].op = "searchByTitle"

IsBGGSearch(c) == api = "BoardGameGeekAPI" /\ call[c].op = "searchByTitle"

(* ------------------------------- claims ------------------------------- *)

\* C1 as stated: every invocation issues exactly one HTTP request and
\* checks the status of that one response before it completes.  Read in the
\* claim's favour: of the invocations that passed the key check and have a
\* media type to search for; the check only of a response that arrived.
C1_ExactlyOneRequest ==
    \A c \in Calls :
        (/\ Completed(c)
         /\ ~KeyMissing
         /\ IsTMDBSearch(c) => TMDBEnabled # {})
        => /\ Len(call[c].reqs) = 1
           /\ ~call[c].resps[1].threw => CountAll(call[c], "check") = 1

\* the number of requests a completed invocation has issued
ExpectedRequests(c) ==
    IF KeyMissing THEN 0
    ELSE IF IsTMDBSearch(c) THEN Cardinality(TMDBEnabled)
    ELSE IF IsBGGSearch(c)
    THEN IF /\ ~Failed(call[c].resps[1])
            /\ call[c].resps[1].body.items # <<>>
         THEN 2 ELSE 1
    ELSE 1

\* C1 amended: an invocation has at most one request in flight and issues
\* at most two; when it completes every request has been answered, the
\* status of every response (not of a request that threw) has been checked
\* exactly once and right after it arrived, and the number of requests is:
\* none when the key is missing; one per enabled media type for
\* TMDBAPI.searchByTitle; the search and, when it answered 200 with an item,
\* the thumbnail request for BoardGameGeekAPI.searchByTitle; one otherwise.
C1_RequestsAndChecks ==
    \A c \in Calls :
        LET cr == call[c] IN
        /\ Len(cr.reqs) <= 2
        /\ Len(cr.reqs) - Len(cr.resps) \in {0, 1}
        /\ \A n \in 1..Len(cr.resps) :
              /\ Count(cr, "check", n) = (IF cr.resps[n].threw THEN 0 ELSE 1)
              /\ ~cr.resps[n].threw =>
                    Pos(cr, "check", n) = Pos(cr, "response", n) + 1
        /\ Completed(c) =>
              /\ Len(cr.resps) = Len(cr.reqs)
              /\ Len(cr.reqs) = ExpectedRequests(c)

\* C1 witness: a TMDB search has completed after two requests, one answered
\* and checked, the other thrown
C1_Witness ==
    \E c \in Calls :
        /\ Completed(c) /\ IsTMDBSearch(c)
        /\ Len(call[c].reqs) = 2
        /\ call[c].resps[1].threw /\ ~call[c].resps[2].threw
        /\ CountAll(call[c], "check") = 1

\* C2: failed requests are never retried: within one invocation, once a
\* request has thrown or was answered with a status other than 200, no later
\* request of the invocation asks the same URL; the invocation has thrown,
\* or goes on without reading that response.
C2_NoRetry ==
    \A c \in Calls :
        LET cr == call[c] IN
        \A i \in 1..Len(cr.resps) :
            Failed(cr.resps[i]) =>
                /\ \A j \in (i + 1)..Len(cr.reqs) : cr.reqs[j] # cr.reqs[i]
                /\ Count(cr, "parse", i) = 0
                /\ \/ cr.pc = "threw"
                   \/ IsTMDBSearch(c)
                   \/ IsBGGSearch(c) /\ i = 2

\* C2 witness: a TMDB search whose movie request failed has gone on to its
\* TV request and completed
C2_Witness ==
    \E c \in Calls :
        /\ Completed(c) /\ IsTMDBSearch(c)
        /\ Len(call[c].reqs) = 2
        /\ Failed(call[c].resps[1])

\* the invocation's key check let it pass (BoardGameGeekAPI has none)
KeyCheckPassed == ~KeyMissing

\* the outcome of an invocation: how it ended, what it returned or threw
Outcome(cr) == [pc |-> cr.pc, ret |-> cr.ret, err |-> cr.err]

\* C3 as stated: every completed invocation that passed its key check has
\* issued its own HTTP request, and its outcome is the one the method gives
\* on the responses received during that invocation.
C3_AlwaysRequests ==
    \A c \in Calls :
        (Completed(c) /\ KeyCheckPassed) =>
            /\ Len(call[c].reqs) >= 1
            /\ Outcome(call[c]) =
                  Outcome(Alone(api, call[c].op, call[c].arg, settings,
                                call[c].resps))

\* C3 amended: as stated, except that TMDBAPI.searchByTitle issues no
\* request when both of its media types are disabled; every request of an
\* invocation is one it issued itself and was answered to it.
C3_NoCache ==
    \A c \in Calls :
        (Completed(c) /\ KeyCheckPassed) =>
            /\ ~(IsTMDBSearch(c) /\ TMDBEnabled = {}) => Len(call[c].reqs) >= 1
            /\ CountAll(call[c], "request") = Len(call[c].reqs)
            /\ Len(call[c].resps) = Len(call[c].reqs)
            /\ Outcome(call[c]) =
                  Outcome(Alone(api, call[c].op, call[c].arg, settings,
                                call[c].resps))

\* C3 witness: an invocation completes on its own response while another
\* invocation with the same method and argument is still waiting for its
\* own, asked from the same URL
C3_Witness ==
    \E c, d \in Calls :
        /\ c # d
        /\ Completed(c) /\ call[c].pc = "returned" /\ call[c].ret # <<>>
        /\ call[d].pc \in {"await_search", "await_details"}
        /\ call[d].op = call[c].op /\ call[d].arg = call[c].arg
        /\ call[d].reqs[1] = call[c].reqs[1]

\* each step of the pipeline and the step that must have come before it
PipelineSteps ==
    {<<"build", "request">>, <<"request", "response">>,
     <<"request", "exception">>, <<"response", "check">>,
     <<"check", "parse">>, <<"parse", "map">>, <<"map", "construct">>}

\* the steps taken for request n of cr came in the order of the pipeline
InPipelineOrder(cr, n) ==
    \A st \in PipelineSteps :
        Pos(cr, st[2], n) # 0 =>
            /\ Pos(cr, st[1], n) # 0
            /\ Pos(cr, st[1], n) < Pos(cr, st[2], n)

\* C4: the steps run in the order build URL, issue request, check status,
\* parse, map, construct, and nothing is parsed, mapped or constructed from
\* a response whose status is not 200 (or from a request that threw).
C4_PipelineOrder ==
    \A c \in Calls :
        LET cr == call[c] IN
        /\ \A n \in 1..Len(cr.reqs) : InPipelineOrder(cr, n)
        /\ \A i \in 1..Len(cr.log) :
              cr.log[i].ev \in {"parse", "map", "construct"} =>
                  /\ cr.log[i].req <= Len(cr.resps)
                  /\ ~cr.resps[cr.log[i].req].threw
                  /\ cr.resps[cr.log[i].req].status = 200
        /\ cr.ret # <<>> =>
              \E n \in 1..Len(cr.resps) :
                  ~Failed(cr.resps[n]) /\ Count(cr, "construct", n) = 1

\* C4 witness: an invocation got a status other than 200 and completed
\* without parsing it, and another response of it was parsed and mapped
C4_Witness ==
    \E c \in Calls :
        /\ Completed(c)
        /\ \E n \in 1..Len(call[c].resps) :
              /\ ~call[c].resps[n].threw /\ call[c].resps[n].status # 200
              /\ Count(call[c], "check", n) = 1
        /\ \E n \in 1..Len(call[c].resps) : Count(call[c], "construct", n) = 1

\* C5 (invariant part): whatever else is in flight, the record of every
\* invocation is the one the method reaches when it runs alone on the
\* answers this invocation received
C5_AsIfAlone ==
    \A c \in Calls :
        Made(c) =>
            call[c] = Alone(api, call[c].op, call[c].arg, settings,
                            call[c].resps)

\* C5: adapter calls are isolated: a step of one invocation writes no
\* adapter field or setting and no other invocation's locals or result
\* list, and every invocation in flight or completed is in the state it
\* reaches when run alone on the answers it received, in whatever order the
\* awaits of the invocations interleave.
C5_Isolation ==
    /\ []C5_AsIfAlone
    /\ [][/\ api' = api
          /\ settings' = settings
          /\ Cardinality({c \in Calls : call'[c] # call[c]}) <= 1]_vars

\* C5 witness: a TMDB search completes with its two result groups while
\* another TMDB search, already holding its movie results, waits for its TV
\* answer
C5_Witness ==
    \E c, d \in Calls :
        /\ c # d
        /\ IsTMDBSearch(c) /\ call[c].pc = "returned"
        /\ Len(call[c].resps) = 2
        /\ ~Failed(call[c].resps[1]) /\ ~Failed(call[c].resps[2])
        /\ call[c].ret # <<>>
        /\ IsTMDBSearch(d) /\ call[d].pc = "await_tv"
        /\ call[d].ret # <<>>
        /\ call[d].resps[1] # call[c].resps[1]

\* the adapters whose searchByTitle maps one response item by item
ListSearchAPIs == {"RawgAPI", "GoogleBooksAPI", "BoardGameGeekAPI"}

\* the items of a search response body, as the adapter's schema names them
ResponseItems(a, body) ==
    CASE a = "RawgAPI" -> body.results
      [] a = "GoogleBooksAPI" ->
            IF body.isNull \/ ~body.hasItems THEN <<>> ELSE body.items
      [] a = "BoardGameGeekAPI" -> body.items

\* the id and title of a response item, as strings
ItemIdOf(a, item) == IF a = "RawgAPI" THEN toString(item.id) ELSE item.id

ItemTitleOf(a, item) ==
    IF a = "GoogleBooksAPI" THEN item.volumeInfo.title ELSE item.name

\* ret holds one model per item, in order, with the adapter as dataSource
OnePerItem(a, ret, items) ==
    /\ Len(ret) = Len(items)
    /\ \A i \in 1..Len(items) :
          /\ ret[i].id = ItemIdOf(a, items[i])
          /\ ret[i].title = ItemTitleOf(a, items[i])
          /\ ret[i].dataSource = a

\* invocation c is a list search that completed after a status-200 answer
\* to its search request
ListSearchAnswered(c) ==
    /\ api \in ListSearchAPIs /\ call[c].op = "searchByTitle"
    /\ Completed(c)
    /\ Len(call[c].resps) >= 1
    /\ ~Failed(call[c].resps[1])

\* C6 as stated: on a status-200 response, searchByTitle of RawgAPI,
\* GoogleBooksAPI and BoardGameGeekAPI returns exactly one model per item of
\* the response, in response order, duplicates included, each with
\* dataSource equal to the adapter's apiName.
C6_OnePerItem ==
    \A c \in Calls :
        ListSearchAnswered(c) =>
            /\ call[c].pc = "returned"
            /\ OnePerItem(api, call[c].ret,
                          ResponseItems(api, call[c].resps[1].body))

\* C6 amended: as stated, except that GoogleBooksAPI.searchByTitle returns
\* an empty list when the response says totalItems is 0, whatever items it
\* carries.
C6_OnePerItemUnlessNoTotal ==
    \A c \in Calls :
        ListSearchAnswered(c) =>
            LET body == call[c].resps[1].body IN
            /\ call[c].pc = "returned"
            /\ IF api = "GoogleBooksAPI" /\ ~body.isNull /\ body.totalItems = 0
               THEN call[c].ret = <<>>
               ELSE OnePerItem(api, call[c].ret, ResponseItems(api, body))

\* C6 witness: a search has returned two models for a response that holds
\* the same item twice
C6_Witness ==
    \E c \in Calls :
        /\ ListSearchAnswered(c)
        /\ Len(ResponseItems(api, call[c].resps[1].body)) = 2
        /\ Len(call[c].ret) = 2
        /\ call[c].ret[1].id = call[c].ret[2].id

\* the statuses the adapter reports as a failed authentication
AuthStatuses(a) == IF a = "GoogleBooksAPI" THEN {401, 403} ELSE {401}

\* the error the claim assigns to a response of invocation c, "" for none
ExpectedError(c, status) ==
    IF status \in AuthStatuses(api) THEN ErrAuth
    ELSE IF /\ status = 404
            /\ api \in {"RawgAPI", "GoogleBooksAPI"}
            /\ call[c].op = "getById"
    THEN ErrNotFound
    ELSE IF status # 200 THEN ErrStatus
    ELSE ""

\* response n of invocation c had the outcome the claim assigns to it
StatusOutcome(c, n) ==
    LET e == ExpectedError(c, call[c].resps[n].status) IN
    IF e # "" THEN call[c].pc = "threw" /\ call[c].err = e
    ELSE call[c].err \notin {ErrAuth, ErrNotFound, ErrStatus}

\* C7 as stated: for every response received by RawgAPI, GoogleBooksAPI or
\* BoardGameGeekAPI searchByTitle/getById and by TMDBAPI getById: 401 (or
\* 403 for GoogleBooksAPI) throws the authentication error; else 404 in
\* RawgAPI.getById and GoogleBooksAPI.getById throws 'not found'; else any
\* status other than 200 throws 'Received status code'; 200 throws none.
C7_StatusOutcome ==
    \A c \in Calls :
        ~IsTMDBSearch(c) =>
            \A n \in 1..Len(call[c].resps) :
                ~call[c].resps[n].threw => StatusOutcome(c, n)

\* C7 amended: as stated for every response except the answer to the
\* thumbnail request of BoardGameGeekAPI.searchByTitle, after which the
\* search returns whatever the status is.
C7_StatusOutcomeButThumbnails ==
    \A c \in Calls :
        ~IsTMDBSearch(c) =>
            \A n \in 1..Len(call[c].resps) :
                ~call[c].resps[n].threw =>
                    IF IsBGGSearch(c) /\ n = 2
                    THEN call[c].pc = "returned"
                    ELSE StatusOutcome(c, n)

\* C7 witness: a getById answered 404 has thrown 'not found'
C7_Witness ==
    \E c \in Calls :
        /\ call[c].op = "getById"
        /\ Len(call[c].resps) = 1
        /\ call[c].resps[1].status = 404
        /\ call[c].pc = "threw" /\ call[c].err = ErrNotFound

\* C8: with the adapter's API key setting empty, searchByTitle and getById
\* of RawgAPI, GoogleBooksAPI and TMDBAPI throw the 'API key missing' error
\* and issue no HTTP request.
C8_KeyMissing ==
    \A c \in Calls :
        (Made(c) /\ api \in KeyCheckedAPIs /\ KeySetting(api, settings) = "")
        => /\ call[c].pc = "threw"
           /\ call[c].err = ErrKeyMissing
           /\ call[c].reqs = <<>>
           /\ CountAll(call[c], "request") = 0

\* C8 witness: TMDBAPI.getById has thrown for the missing key
C8_Witness ==
    \E c \in Calls :
        /\ api = "TMDBAPI" /\ settings.TMDBKey = ""
        /\ call[c].op = "getById"
        /\ call[c].pc = "threw" /\ call[c].err = ErrKeyMissing

\* the index of the request of cr to endpoint, 0 if there is none
ReqIndex(cr, endpoint) ==
    IF \E i \in 1..Len(cr.reqs) : cr.reqs[i].endpoint = endpoint
    THEN CHOOSE i \in 1..Len(cr.reqs) : cr.reqs[i].endpoint = endpoint
    ELSE 0

\* the search of cr at endpoint was answered with status 200
Answered200(cr, endpoint) ==
    /\ ReqIndex(cr, endpoint) # 0
    /\ ReqIndex(cr, endpoint) <= Len(cr.resps)
    /\ ~Failed(cr.resps[ReqIndex(cr, endpoint)])

\* C9: TMDBAPI.searchByTitle is best-effort: past the key check it never
\* throws; the TV search is attempted (when series are enabled) whether or
\* not the movie search failed; the returned list holds exactly the results
\* of the searches answered with status 200, and is empty when both failed.
C9_BestEffort ==
    \A c \in Calls :
        (IsTMDBSearch(c) /\ ~KeyMissing) =>
            LET cr == call[c]
                movie == IF Answered200(cr, "tmdb/search/movie")
                         THEN TMDB_movieResults(
                                 cr.resps[ReqIndex(cr, "tmdb/search/movie")].body)
                         ELSE <<>>
                tv == IF Answered200(cr, "tmdb/search/tv")
                      THEN TMDB_tvResults(
                              cr.resps[ReqIndex(cr, "tmdb/search/tv")].body)
                      ELSE <<>>
            IN  /\ cr.pc # "threw"
                /\ Completed(c) =>
                      /\ cr.pc = "returned" /\ cr.err = ""
                      /\ "series" \in TMDBEnabled =>
                            ReqIndex(cr, "tmdb/search/tv") # 0
                      /\ cr.ret = movie \o tv

\* C9 witness: the movie request threw, the TV search answered 200 with
\* results, and the search returned them
C9_Witness ==
    \E c \in Calls :
        /\ IsTMDBSearch(c) /\ call[c].pc = "returned"
        /\ Len(call[c].resps) = 2
        /\ call[c].resps[1].threw
        /\ ~Failed(call[c].resps[2])
        /\ call[c].ret # <<>>

Min(a, b) == IF a < b THEN a ELSE b

\* C10: TMDBAPI.searchByTitle returns at most 20 models: the first 10 movie
\* results at most, then the first 10 TV results at most, each group in
\* response order, movies before series; the TV request is issued only
\* after the movie response has been handled; a search whose media type
\* hasType reports disabled is not made.
C10_TenAndTen ==
    \A c \in Calls :
        (IsTMDBSearch(c) /\ ~KeyMissing) =>
            LET cr == call[c]
                mi == ReqIndex(cr, "tmdb/search/movie")
                ti == ReqIndex(cr, "tmdb/search/tv")
                M == IF Answered200(cr, "tmdb/search/movie")
                     THEN cr.resps[mi].body.results ELSE <<>>
                T == IF Answered200(cr, "tmdb/search/tv")
                     THEN cr.resps[ti].body.results ELSE <<>>
                m == Min(Len(M), TMDBSliceLimit)
                t == Min(Len(T), TMDBSliceLimit)
            IN  /\ "movie" \notin TMDBEnabled => mi = 0
                /\ "series" \notin TMDBEnabled => ti = 0
                /\ (mi # 0 /\ ti # 0) =>
                      /\ mi < ti
                      /\ Len(cr.resps) >= mi
                      /\ \A j \in 1..Len(cr.log) :
                            cr.log[j].req = mi => j < Pos(cr, "build", ti)
                /\ Completed(c) =>
                      /\ Len(cr.ret) <= 2 * TMDBSliceLimit
                      /\ Len(cr.ret) = m + t
                      /\ \A i \in 1..m :
                            /\ cr.ret[i].type = "movie"
                            /\ cr.ret[i].id = toString(M[i].id)
                            /\ cr.ret[i].title = M[i].name
                      /\ \A i \in 1..t :
                            /\ cr.ret[m + i].type = "series"
                            /\ cr.ret[m + i].id =
                                  <<"t", "v", "-">> \o toString(T[i].id)
                            /\ cr.ret[m + i].title = T[i].name

\* C10 witness: both searches answered with more than 10 results and the
\* search returned 20 models
C10_Witness ==
    \E c \in Calls :
        /\ IsTMDBSearch(c) /\ call[c].pc = "returned"
        /\ Len(call[c].resps) = 2
        /\ ~Failed(call[c].resps[1]) /\ ~Failed(call[c].resps[2])
        /\ Len(call[c].resps[1].body.results) > TMDBSliceLimit
        /\ Len(call[c].resps[2].body.results) > TMDBSliceLimit
        /\ Len(call[c].ret) = 2 * TMDBSliceLimit

(* ------------------------------- C11 ---------------------------------- *)

TvPrefix == <<"t", "v", "-">>

\* the kind of media the endpoint of a details request serves
FetchedKind(url) ==
    IF url.endpoint = "tmdb/tv/id" THEN "series"
    ELSE IF url.endpoint = "tmdb/movie/id" THEN "movie"
    ELSE "none"

\* the id a TMDB model of kind type carries for the numeric id n
TMDBIdOf(type, n) ==
    IF type = "series" THEN TvPrefix \o toString(n) ELSE toString(n)

\* getById(m.id), for a search result m, asks the endpoint of m's kind for
\* the number of m
AsksSameKind(m) ==
    LET g == TMDB_getById_begin(m.id, settings)
    IN  /\ Len(g.reqs) = 1
        /\ FetchedKind(g.reqs[1]) = m.type
        /\ \E n \in 1..(MaxItems + TMDBSliceLimit + MaxOver) :
              /\ m.id = TMDBIdOf(m.type, n)
              /\ g.reqs[1].arg = toString(n)

\* getById(m.id) answered with r (status 200) returns a model of m's kind
\* whose id is built from the id in r; echoed: r carries the id asked for
RoundTrip(m, r, always) ==
    LET g == TMDB_getById_begin(m.id, settings)
        d == Resume("TMDBAPI", g, r, settings)
    IN  /\ d.pc = "returned" /\ Len(d.ret) = 1
        /\ d.ret[1].type = m.type
        /\ d.ret[1].id = TMDBIdOf(m.type, r.body.id)
        /\ (always \/ toString(r.body.id) = g.reqs[1].arg) =>
              d.ret[1].id = m.id

\* a getById invocation of the TMDB adapter, past its key check
IsTMDBGetById(c) ==
    /\ api = "TMDBAPI" /\ call[c].op = "getById" /\ ~KeyMissing

\* what C11 says of the invocations and of the search results at hand;
\* always: the returned id equals the id passed in whatever the response
\* carries
TMDBIdsRoundTrip(always) ==
    /\ \A c \in Calls :
          (IsTMDBSearch(c) /\ call[c].pc = "returned") =>
              \A i \in 1..Len(call[c].ret) :
                  LET m == call[c].ret[i]
                  IN  /\ m.type \in {"movie", "series"}
                      /\ StartsWith(m.id, TvPrefix) <=> m.type = "series"
                      /\ AsksSameKind(m)
                      /\ \A r \in Responses(
                                 TMDB_getById_begin(m.id, settings)
                                     .reqs[1].endpoint) :
                            ~Failed(r) => RoundTrip(m, r, always)
    /\ \A c \in Calls :
          IsTMDBGetById(c) =>
              LET cr == call[c]
                  tv == StartsWith(cr.arg, TvPrefix)
              IN  /\ Len(cr.reqs) = 1
                  /\ cr.reqs[1].endpoint = "tmdb/tv/id" <=> tv
                  /\ cr.reqs[1].endpoint = "tmdb/movie/id" <=> ~tv
                  /\ cr.reqs[1].arg =
                        IF tv THEN SubSeq(cr.arg, 4, Len(cr.arg)) ELSE cr.arg
                  /\ cr.pc = "returned" =>
                        /\ cr.ret[1].type = IF tv THEN "series" ELSE "movie"
                        /\ cr.ret[1].id =
                              TMDBIdOf(cr.ret[1].type, cr.resps[1].body.id)
                        /\ (always \/ toString(cr.resps[1].body.id)
                                         = cr.reqs[1].arg) =>
                              cr.ret[1].id = cr.arg

\* C11 as stated: TMDB ids round-trip through the 'tv-' prefix: a search
\* gives series the id 'tv-<n>' and movies the id '<n>'; getById asks /tv/<n>
\* exactly when its id starts with 'tv-' and /movie/<id> otherwise; getById
\* of a search result's id fetches the same kind of media and returns a
\* model whose id equals the id passed in.
C11_IdRoundTrip == TMDBIdsRoundTrip(TRUE)

\* C11 amended: as C11, but the returned model's id is built from the id in
\* the response ('tv-<id>' for /tv, '<id>' for /movie): it equals the id
\* passed in whenever the response carries the id that was asked for.
C11_IdRoundTripIfEchoed == TMDBIdsRoundTrip(FALSE)

\* C11 witness: getById of the id of a series search result asked /tv/1,
\* was answered with the series 1 and returned a series with the id passed
C11_Witness ==
    \E c \in Calls :
        /\ IsTMDBGetById(c) /\ call[c].pc = "returned"
        /\ call[c].arg = TMDB_SeriesModel(Item(1)).id
        /\ call[c].reqs[1].endpoint = "tmdb/tv/id"
        /\ call[c].resps[1].body.id = 1
        /\ call[c].ret[1].type = "series"
        /\ call[c].ret[1].id = call[c].arg

(* ---------------------------- C12, C13 -------------------------------- *)

\* the thumbnail request of invocation c has been issued
ThumbnailsAsked(c) == IsBGGSearch(c) /\ Len(call[c].reqs) = 2

\* the thumbnail request of invocation c has been answered (or has thrown)
ThumbnailsHandled(c) == IsBGGSearch(c) /\ Len(call[c].resps) = 2

\* the model the search answer's item stands for, without an image
ImagelessModelOf(item) ==
    [type |-> "boardgame", title |-> item.name, englishTitle |-> item.name,
     dataSource |-> "BoardGameGeekAPI", id |-> item.id, image |-> "",
     year |-> IF Len(item.yearpublished) = 0 THEN ""
              ELSE item.yearpublished[1]]

\* ret holds one model per item of the search answer, in order, each the
\* item's model up to its image
SameButImages(ret, items) ==
    /\ Len(ret) = Len(items)
    /\ \A i \in 1..Len(items) :
          [ret[i] EXCEPT !.image = ""] = ImagelessModelOf(items[i])

\* C12: in BoardGameGeekAPI.searchByTitle a failure of the thumbnail
\* request (an exception or a status other than 200) never makes the search
\* fail: the call still returns the same models, in the same order, with
\* the same id, title and year as the search response produced, only
\* without images.
C12_ThumbnailFailureTolerated ==
    \A c \in Calls :
        /\ ThumbnailsAsked(c) => call[c].pc # "threw"
        /\ (ThumbnailsHandled(c) /\ Failed(call[c].resps[2])) =>
              LET cr == call[c]
                  items == cr.resps[1].body.items
              IN  /\ cr.pc = "returned" /\ cr.err = ""
                  /\ SameButImages(cr.ret, items)
                  /\ \A i \in 1..Len(cr.ret) : cr.ret[i].image = ""

\* C12 witness: the search found MaxItems games, the thumbnail request
\* threw, and the search returned its MaxItems models
C12_Witness ==
    \E c \in Calls :
        /\ ThumbnailsHandled(c)
        /\ call[c].resps[2].threw
        /\ call[c].pc = "returned"
        /\ Len(call[c].ret) = MaxItems
        /\ call[c].ret[1].year # ""

\* the thumbnail request comes after a search answered with 200 that gave
\* a model; once it is handled the models are those of the search up to
\* their images, and an image sits only on the first model with the id of
\* a detail item that has a thumbnail
ThumbnailsOnlyOnMatch ==
    \A c \in Calls :
        LET cr == call[c]
        IN  /\ IsBGGSearch(c) => Len(cr.reqs) <= 2
            /\ ThumbnailsAsked(c) =>
                  /\ Len(cr.resps) >= 1 /\ ~Failed(cr.resps[1])
                  /\ Len(cr.resps[1].body.items) > 0
                  /\ cr.reqs[2].endpoint = "bgg/thing"
                  /\ Pos(cr, "check", 1) < Pos(cr, "build", 2)
                  /\ Pos(cr, "construct", 1) < Pos(cr, "build", 2)
                  /\ SameButImages(cr.ret, cr.resps[1].body.items)
            /\ (ThumbnailsAsked(c) /\ ~ThumbnailsHandled(c)) =>
                  \A i \in 1..Len(cr.ret) : cr.ret[i].image = ""
            /\ ThumbnailsHandled(c) =>
                  \A i \in 1..Len(cr.ret) :
                      cr.ret[i].image # "" =>
                          /\ ~Failed(cr.resps[2])
                          /\ \E k \in 1..Len(cr.resps[2].body.items) :
                                LET item == cr.resps[2].body.items[k]
                                IN  /\ item.id = cr.ret[i].id
                                    /\ item.thumbnail # ""
                                    /\ item.thumbnail = cr.ret[i].image
                          /\ \A j \in 1..(i - 1) :
                                cr.ret[j].id # cr.ret[i].id

\* the step that handles the thumbnail answer of c changes c only, and of
\* c's models nothing but images
ThumbnailStepFrame ==
    \A c \in Calls :
        (call[c].pc = "await_thumbnails" /\ call'[c] # call[c]) =>
            /\ api' = api /\ settings' = settings
            /\ \A d \in Calls \ {c} : call'[d] = call[d]
            /\ call'[c].reqs = call[c].reqs
            /\ call'[c].op = call[c].op /\ call'[c].arg = call[c].arg
            /\ Len(call'[c].resps) = 2
            /\ Len(call'[c].ret) = Len(call[c].ret)
            /\ \A i \in 1..Len(call[c].ret) :
                  [call'[c].ret[i] EXCEPT !.image = ""] = call[c].ret[i]

\* C13: in BoardGameGeekAPI.searchByTitle the thumbnail request is issued
\* only after the search request returned status 200 and only when the
\* search produced at least one model; handling its response changes
\* nothing but the image field, and sets the image only on a model whose id
\* equals the id of a detail item that carries a non-empty thumbnail (the
\* first such model when several share the id).
C13_ThumbnailFrame == []ThumbnailsOnlyOnMatch /\ [][ThumbnailStepFrame]_vars

\* C13 witness: two models share an id, the detail answer has a thumbnail
\* for it, and the first of the two got the image
C13_Witness ==
    \E c \in Calls :
        /\ ThumbnailsHandled(c) /\ call[c].pc = "returned"
        /\ ~Failed(call[c].resps[2])
        /\ Len(call[c].ret) = 2
        /\ call[c].ret[1].id = call[c].ret[2].id
        /\ call[c].ret[1].image # ""
        /\ call[c].ret[2].image = ""

(* ------------------------------- C14 ---------------------------------- *)

\* a getById invocation whose request was answered with status 200
GetByIdAnswered200(c) ==
    /\ call[c].op = "getById"
    /\ Len(call[c].resps) = 1
    /\ ~Failed(call[c].resps[1])

\* the status-200 answer to the getById request of adapter a is empty: the
\* XML has no <item>, or the JSON is null or lacks volumeInfo
EmptyDetails(a, body) ==
    CASE a = "BoardGameGeekAPI" -> Len(body.items) = 0
      [] a = "GoogleBooksAPI"   -> body.isNull \/ ~body.hasVolumeInfo
      [] OTHER                  -> FALSE

\* the error getById of adapter a reports for an empty answer
EmptyDetailsError(a) ==
    IF a = "BoardGameGeekAPI" THEN ErrInvalidData ELSE ErrNoData

BooksSearchAnswered200(c) ==
    /\ api = "GoogleBooksAPI" /\ call[c].op = "searchByTitle"
    /\ Len(call[c].resps) = 1
    /\ ~Failed(call[c].resps[1])

\* C15: GoogleBooksAPI.searchByTitle returns an empty list, and does not
\* throw, when a status-200 response has totalItems equal to 0 or has no
\* items array.
C15_EmptyOnNoItems ==
    \A c \in Calls :
        BooksSearchAnswered200(c) =>
            LET cr == call[c]
                data == cr.resps[1].body
            IN  /\ cr.pc = "returned" /\ cr.err = ""
                /\ (data.isNull \/ data.totalItems = 0 \/ ~data.hasItems) =>
                      /\ cr.ret = <<>>
                      /\ CountAll(cr, "construct") = 0

\* C15 witness: the answer says totalItems 0 and yet carries items; the
\* search returned the empty list
C15_Witness ==
    \E c \in Calls :
        /\ BooksSearchAnswered200(c)
        /\ call[c].resps[1].body.totalItems = 0
        /\ call[c].resps[1].body.hasItems
        /\ Len(call[c].resps[1].body.items) > 0
        /\ call[c].pc = "returned" /\ call[c].ret = <<>>

(* ---------------------------- C16, C17 -------------------------------- *)

\* this step is a call of submit()
SubmitStep == modal'.submits # modal.submits

\* submitCallback has been invoked at most once, and only by a submit()
\* that set busy
AtMostOneSubmission ==
    /\ Len(modal.submitted) <= 1
    /\ modal.submits >= 1 => modal.busy
    /\ modal.submitted # <<>> => modal.busy

\* busy is never set back; the first submit() sets it; a submit() on a
\* busy modal invokes nothing and changes nothing
BusyLatch ==
    /\ modal.busy => modal'.busy
    /\ (SubmitStep /\ ~modal.busy) => modal'.busy
    /\ (SubmitStep /\ modal.busy) =>
          modal' = [modal EXCEPT !.submits = modal'.submits]

\* C16: for any sequence of submit() calls on one MediaDbSearchResultModal,
\* submitCallback is invoked at most once: the first submit() sets busy to
\* true, no method of the modal ever sets it back to false, and every later
\* submit() invokes nothing and changes nothing.
C16_SubmitOnce == []AtMostOneSubmission /\ [][BusyLatch]_vars

\* C16 witness: submit() was called MaxModalCalls times with the callback
\* set, and the callback was invoked once
C16_Witness ==
    /\ modal.submits = MaxModalCalls
    /\ modal.submitCallback
    /\ Len(modal.submitted) = 1
    /\ modal.busy

\* the indices of the active elements of the modal
ActiveIndices(m) ==
    {i \in 1..Len(m.selectModalElements) : m.selectModalElements[i].active}

\* selected lists the values of exactly the active elements of m, in the
\* order of selectModalElements
ExactlyTheActive(selected, m) ==
    /\ Len(selected) = Cardinality(ActiveIndices(m))
    /\ \E f \in [1..Len(selected) -> ActiveIndices(m)] :
          /\ \A j, k \in 1..Len(selected) : j < k => f[j] < f[k]
          /\ \A k \in 1..Len(selected) :
                selected[k] = m.selectModalElements[f[k]].value

\* a step that invokes submitCallback hands it the active elements' values
SubmitsTheActive ==
    /\ Len(modal'.submitted) > Len(modal.submitted) =>
          /\ SubmitStep
          /\ Len(modal'.submitted) = Len(modal.submitted) + 1
          /\ ExactlyTheActive(
                 modal'.submitted[Len(modal'.submitted)].selected, modal)
    /\ (SubmitStep /\ ~modal.busy /\ modal.submitCallback) =>
          Len(modal'.submitted) > Len(modal.submitted)
    /\ modal'.selectModalElements = modal.selectModalElements \/ ~SubmitStep

\* C17: the data passed to submitCallback by submit() has as selected
\* exactly the values of the modal elements that are active at the moment
\* of the call, in the order of selectModalElements; inactive elements
\* never appear in it and no active element is missing.
C17_SelectedAreTheActive == [][SubmitsTheActive]_vars

\* C17 witness: of three elements the first and the last were active when
\* submit() was called, and the callback got their two values in order
C17_Witness ==
    /\ Len(modal.selectModalElements) = 3
    /\ Len(modal.submitted) = 1
    /\ modal.submitted[1].selected =
          <<modal.selectModalElements[1].value,
            modal.selectModalElements[3].value>>

(* ------------------------------- C18 ---------------------------------- *)

RECURSIVE DecodeOnce(_, _)
\* every entity of s that entities lists is decoded, and nothing that a
\* decoding produced is looked at again
DecodeOnce(s, entities) ==
    IF s = <<>> THEN <<>>
    ELSE IF \E e \in 1..Len(entities) :
                /\ Len(s) >= Len(entities[e].pat)
                /\ SubSeq(s, 1, Len(entities[e].pat)) = entities[e].pat
    THEN LET e == CHOOSE k \in 1..Len(entities) :
                      /\ Len(s) >= Len(entities[k].pat)
                      /\ SubSeq(s, 1, Len(entities[k].pat)) = entities[k].pat
         IN  entities[e].rep \o
             DecodeOnce(SubSeq(s, Len(entities[e].pat) + 1, Len(s)), entities)
    ELSE <<Head(s)>> \o DecodeOnce(Tail(s), entities)

\* C18: HTML-entity stripping decodes each entity of the input once: in
\* GoogleBooksAPI.cleanHtml and in the description decoding of
\* BoardGameGeekAPI.getById the text produced by decoding one entity is not
\* decoded again by a later replacement step ('&amp;lt;' yields '&lt;'), and
\* cleanHtml removes tags only from the original input, before any entity
\* is decoded.
C18_DecodedOnce ==
    /\ text.fn = "cleanHtml" =>
          text.output =
              IF text.input = <<>> THEN <<>>
              ELSE Trim(ReplaceEach(
                       DecodeOnce(StripTags(text.input), CleanHtmlEntities),
                       CleanHtmlLineEnds))
    /\ text.fn = "description" =>
          text.output = Trim(DecodeOnce(text.input, DescriptionEntities))

====
